---- MODULE Spec2Model ----
(***************************************************************************)
(* A model of sllama.py: OllamaSpeedTest probes a list of hosts through a  *)
(* thread pool.  Each probe (test_single_ip) asks the host for its models, *)
(* posts one generation request, reads the streamed answer, builds a       *)
(* result dict, prints it and returns it.  test_multiple_ips submits one   *)
(* probe per host and collects the results with as_completed.              *)
(*                                                                         *)
(* Python values: a dict is a function from its keys; a str that the code  *)
(* takes apart (a model name) is a sequence of segments, ":" being the tag *)
(* separator; other strs are TLA+ strings.                                 *)
(***************************************************************************)
EXTENDS Integers, Sequences, FiniteSets, TLC

\* ---------------------------------------------------------------- bounds
MaxHosts == 2       \* longest host list handed to test_multiple_ips
MaxThreads == 2     \* largest --threads value
MaxModels == 2      \* longest model list of a discovery response
MaxStreamLen == 2   \* most lines of a generation response body

\* ------------------------------------------------------ python values
EmptyDict == [k \in {} |-> 0]

\* d.get(k, default)
Get(d, k, default) == IF k \in DOMAIN d THEN d[k] ELSE default

\* The value of last_response.get('total_duration') when the key is missing.
None == -1

\* The placeholder 'N/A'.
NA == <<"N/A">>

\* self.preferred_model
preferred_model == <<"llama3.2">>

\* ------------------------------------------------------------- inputs
Segments == {"llama3.2", "mistral", ":"}

\* The 'name' of a listed model: one or two segments, or name:tag.
RawNames ==
    {<<a>> : a \in Segments}
        \cup {<<a, b>> : a, b \in Segments}
        \cup {<<a, ":", b>> : a, b \in Segments \ {":"}}

ModelLists == UNION {[1..n -> RawNames] : n \in 0..MaxModels}

\* What requests.get gives check_available_models: a RequestException, or a
\* response with a status code and (for 200) a body {'models': [...]}.
DiscoveryResponses ==
    {[exc |-> TRUE, status_code |-> 0, models |-> <<>>]}
        \cup {[exc |-> FALSE, status_code |-> c, models |-> <<>>] : c \in {204, 404, 500}}
        \cup {[exc |-> FALSE, status_code |-> 200, models |-> ml] : ml \in ModelLists}

NoDiscovery == [exc |-> FALSE, status_code |-> 0, models |-> <<>>]

DoneField(d) == IF d = "absent" THEN EmptyDict ELSE ("done" :> (d = "true"))

NumField(k, v) == IF v < 0 THEN EmptyDict ELSE (k :> v)

\* The JSON objects a line of the generation stream can hold.
Events ==
    {DoneField(d) @@ NumField("eval_count", ec) @@ NumField("eval_duration", ed)
        @@ NumField("total_duration", td) :
        d \in {"absent", "true", "false"}, ec \in {-1, 100},
        ed \in {-1, 0, 2000000000}, td \in {-1, 2000000000}}

\* A line of response.iter_lines(): empty (b''), whitespace only, not JSON,
\* or one JSON object.
Chunk(kind, obj) == [kind |-> kind, obj |-> obj]

Chunks ==
    {Chunk(k, EmptyDict) : k \in {"empty", "blank", "malformed"}}
        \cup {Chunk("event", e) : e \in Events}

Streams == UNION {[1..n -> Chunks] : n \in 0..MaxStreamLen}

\* What requests.post gives test_single_ip: a RequestException (connection
\* failure or timeout), or a response body as its lines.
GenerationResponses ==
    {[exc |-> TRUE, lines |-> <<>>]} \cup {[exc |-> FALSE, lines |-> s] : s \in Streams}

NoGeneration == [exc |-> FALSE, lines |-> <<>>]

TerminalEvent ==
    ("done" :> TRUE) @@ ("eval_count" :> 100) @@ ("eval_duration" :> 2000000000)
        @@ ("total_duration" :> 2000000000)

\* The few responses the pool is explored with when several hosts run.
CoreDiscovery ==
    {[exc |-> TRUE, status_code |-> 0, models |-> <<>>],
     [exc |-> FALSE, status_code |-> 200, models |-> <<<<"mistral", ":", "llama3.2">>>>]}

CoreGeneration ==
    {[exc |-> TRUE, lines |-> <<>>],
     [exc |-> FALSE, lines |-> <<Chunk("event", TerminalEvent)>>],
     [exc |-> FALSE, lines |-> <<Chunk("malformed", EmptyDict)>>]}

\* -------------------------------------------------- check_available_models
\* name.split(':')[0]: the part of a name before its first ':'.
SplitTag(name) ==
    LET seps == {k \in 1..Len(name) : name[k] = ":"}
    IN  IF seps = {} THEN name
        ELSE SubSeq(name, 1, (CHOOSE k \in seps : \A j \in seps : k <= j) - 1)

ModelCheckSuccess(model) == ("status" :> "success") @@ ("model" :> model)

ModelCheckError(message) == ("status" :> "error") @@ ("message" :> message)

\* A selection that looks at the first listed model only.
check_first_model_only(resp) ==
    IF resp.exc THEN ModelCheckError(<<"Model check timeout">>)
    ELSE IF resp.status_code = 200 THEN
        IF resp.models # <<>> THEN ModelCheckSuccess(SplitTag(resp.models[1]))
        ELSE ModelCheckError(<<"No models available">>)
    ELSE ModelCheckError(<<"HTTP", resp.status_code>>)

\* The dict check_available_models returns for a discovery response.
check_available_models(resp) ==
    IF resp.exc THEN ModelCheckError(<<"Model check timeout">>)
    ELSE IF resp.status_code = 200 THEN
        LET models == resp.models
            model_names == [k \in 1..Len(models) |-> SplitTag(models[k])]
        IN  IF \E k \in 1..Len(model_names) : model_names[k] = preferred_model
                THEN ModelCheckSuccess(preferred_model)
            ELSE IF models # <<>> THEN ModelCheckSuccess(SplitTag(models[1]))
            ELSE ModelCheckError(<<"No models available">>)
    ELSE ModelCheckError(<<"HTTP", resp.status_code>>)

\* ------------------------------------------------------- test_single_ip
\* A discovery failure reported under the preferred model's name.
DiscoveryFailureNamed(ip, model_check) ==
    ("ip" :> ip) @@ ("status" :> "error") @@ ("message" :> model_check["message"])
        @@ ("model" :> preferred_model)

\* The result of a probe whose discovery failed.
DiscoveryFailure(ip, model_check) ==
    ("ip" :> ip) @@ ("status" :> "error") @@ ("message" :> model_check["message"])
        @@ ("model" :> NA)

\* The for loop over response.iter_lines(): empty lines are passed over,
\* every other line goes through json.loads, which raises on a line that is
\* not JSON (whitespace included).  [raised, has, last]: has is
\* last_response is not None.
RECURSIVE ParseFrom(_, _, _)
ParseFrom(lines, k, acc) ==
    IF k > Len(lines) THEN acc
    ELSE IF lines[k].kind = "empty" THEN ParseFrom(lines, k + 1, acc)
    ELSE IF lines[k].kind = "event"
        THEN ParseFrom(lines, k + 1, [raised |-> FALSE, has |-> TRUE, last |-> lines[k].obj])
    ELSE [raised |-> TRUE, has |-> acc.has, last |-> acc.last]

\* A parser that keeps the first decoded event instead of the last.
ParseStreamFirst(lines) ==
    LET p == ParseFrom(lines, 1, [raised |-> FALSE, has |-> FALSE, last |-> EmptyDict])
        events == SelectSeq(lines, LAMBDA chunk : chunk.kind = "event")
    IN  IF p.raised \/ ~p.has THEN p ELSE [p EXCEPT !.last = events[1].obj]

ParseStream(lines) ==
    ParseFrom(lines, 1, [raised |-> FALSE, has |-> FALSE, last |-> EmptyDict])

\* (eval_count / eval_duration) * 1e9 rounded to two places, kept as the
\* quotient's two operands.
TokensPerSecond(eval_count, eval_duration) == <<eval_count, eval_duration>>

Outcome(exception, result) == [exception |-> exception, result |-> result]

GenerationFailure(ip, model_to_use) ==
    ("ip" :> ip) @@ ("status" :> "error") @@ ("model" :> model_to_use)
        @@ ("message" :> <<"Generation timeout">>)

\* An invalid response reported with a rate of zero.
InvalidResponseWithRate(ip, model_to_use) ==
    ("ip" :> ip) @@ ("status" :> "error") @@ ("model" :> model_to_use)
        @@ ("message" :> <<"Invalid response format">>)
        @@ ("tokens_per_second" :> TokensPerSecond(0, 1))

InvalidResponse(ip, model_to_use) ==
    ("ip" :> ip) @@ ("status" :> "error") @@ ("model" :> model_to_use)
        @@ ("message" :> <<"Invalid response format">>)

\* last_response and last_response.get('done')
IsTerminal(p) == p.has /\ p.last # EmptyDict /\ Get(p.last, "done", FALSE)

\* Lines 81-92: the success result, or the ZeroDivisionError of line 83.
SuccessOutcome(ip, model_to_use, last_response) ==
    LET eval_count == Get(last_response, "eval_count", 0)
        eval_duration == Get(last_response, "eval_duration", 1)
    IN  IF eval_duration = 0 THEN Outcome("ZeroDivisionError", EmptyDict)
        ELSE Outcome("",
                ("ip" :> ip) @@ ("status" :> "success") @@ ("model" :> model_to_use)
                    @@ ("tokens_per_second" :> TokensPerSecond(eval_count, eval_duration))
                    @@ ("eval_count" :> eval_count)
                    @@ ("total_duration" :> Get(last_response, "total_duration", None)))

\* Lines 65-113: what the generation phase leaves to print, or the exception
\* that leaves test_single_ip (only RequestException is caught).
GenerationOutcome(ip, model_to_use, resp) ==
    IF resp.exc THEN Outcome("", GenerationFailure(ip, model_to_use))
    ELSE LET p == ParseStream(resp.lines)
         IN  IF p.raised THEN Outcome("JSONDecodeError", EmptyDict)
             ELSE IF IsTerminal(p) THEN SuccessOutcome(ip, model_to_use, p.last)
             ELSE Outcome("", InvalidResponse(ip, model_to_use))

\* --------------------------------------------------------- print_result
\* format(value, '<20'): None has no such format (TypeError).
Formats(value) == value # None

\* The row print_result writes.
Row(result) ==
    ("ip" :> result["ip"]) @@ ("model" :> Get(result, "model", NA))
        @@ ("status" :> result["status"])
        @@ ("tokens_per_sec" :> Get(result, "tokens_per_second", NA))
        @@ ("total_duration" :> IF "total_duration" \in DOMAIN result
                                  THEN <<result["total_duration"]>> ELSE NA)
        \* (a printed number is the one-element sequence of its value)

PrintRaises(result) ==
    "total_duration" \in DOMAIN result /\ ~Formats(result["total_duration"])

\* ---------------------------------------------------------------- state
VARIABLES
    args,           \* the command line: --ip, and the lines of the --file
    completed,      \* the tasks whose future is done, in completion order
    threads,        \* self.threads: max_workers of the pool
    ips,            \* the argument of test_multiple_ips; task i probes ips[i]
    mpc,            \* where test_multiple_ips stands
    main_exc,       \* the exception future.result() raised in it, "" if none
    work_queue,     \* the pool's queue of submitted tasks not yet taken
    worker,         \* worker[w]: the task worker w is running, 0 if idle
    tpc,            \* tpc[i]: where task i's test_single_ip call stands
    model_to_use,   \* model_to_use[i], once discovery has succeeded
    result,         \* result[i]: the local variable result of task i
    exception,      \* exception[i]: what task i's future holds if it raised
    disc_resp,      \* the discovery response task i received
    gen_resp,       \* the generation response task i received
    disc_reqs,      \* number of discovery requests task i has issued
    gen_reqs,       \* number of generation requests task i has issued
    emitted,        \* the rows written to stdout, in order
    finished0,      \* as_completed: the futures found done when it was called
    waiter,         \* as_completed: futures done since, in completion order
    all_results     \* all_results of test_multiple_ips

vars ==
    <<args, completed, threads, ips, mpc, main_exc, work_queue, worker, tpc, model_to_use, result,
      exception, disc_resp, gen_resp, disc_reqs, gen_reqs, emitted, finished0,
      waiter, all_results>>

Tasks == 1..Len(ips)

\* A task a worker holds: taken from the queue ("taken"), then inside
\* test_single_ip.
Running == {"taken", "discover", "generate", "print", "printing", "emitted"}

Finished == {"returned", "raised"}

InFlight == {i \in Tasks : tpc[i] \in Running}

\* The command line that makes main call test_multiple_ips(hosts) on n
\* threads: --threads n and a --file with one address per line, no --ip.
\* has_ip and has_file say that the option was given (args.ip, args.file
\* are not None); file_exists and file are the file at the path of --file
\* and its lines.
ArgsFor(hosts, n) ==
    [has_ip |-> FALSE, ip |-> <<>>, has_file |-> TRUE, file_exists |-> TRUE,
     file |-> hosts, threads |-> n]

InitWith(hostLists, threadCounts) ==
    /\ threads \in threadCounts
    /\ ips \in hostLists
    /\ args = ArgsFor(ips, threads)
    /\ completed = <<>>
    /\ mpc = "submit"
    /\ main_exc = ""
    /\ work_queue = <<>>
    /\ worker = [w \in 1..threads |-> 0]
    /\ tpc = [i \in 1..Len(ips) |-> "new"]
    /\ model_to_use = [i \in 1..Len(ips) |-> <<>>]
    /\ result = [i \in 1..Len(ips) |-> EmptyDict]
    /\ exception = [i \in 1..Len(ips) |-> ""]
    /\ disc_resp = [i \in 1..Len(ips) |-> NoDiscovery]
    /\ gen_resp = [i \in 1..Len(ips) |-> NoGeneration]
    /\ disc_reqs = [i \in 1..Len(ips) |-> 0]
    /\ gen_reqs = [i \in 1..Len(ips) |-> 0]
    /\ emitted = <<>>
    /\ finished0 = {}
    /\ waiter = <<>>
    /\ all_results = <<>>

\* The host lists: n distinct addresses; an address is a sequence of
\* characters, here the one character i for the i-th host.
HostLists == {[i \in 1..n |-> <<i>>] : n \in 0..MaxHosts}

Init == InitWith(HostLists, 1..MaxThreads)

\* ---------------------------------------------------- test_multiple_ips
\* executor.submit(self.test_single_ip, ip), for the next ip of the list.
Submit ==
    /\ mpc = "submit"
    /\ \E i \in Tasks :
        /\ tpc[i] = "new"
        /\ \A j \in 1..(i - 1) : tpc[j] # "new"
        /\ tpc' = [tpc EXCEPT ![i] = "queued"]
        /\ work_queue' = Append(work_queue, i)
    /\ UNCHANGED <<args, completed, threads, ips, mpc, main_exc, worker, model_to_use, result,
                   exception, disc_resp, gen_resp, disc_reqs, gen_reqs, emitted,
                   finished0, waiter, all_results>>

\* A pool that does not hold its workers to max_workers.
CanStartUnbounded(w) == w \in DOMAIN worker => worker[w] = 0

\* A worker of the pool is free to take a task: the pool has max_workers
\* = self.threads workers and each runs one task at a time.
CanStart(w) == w \in 1..threads /\ worker[w] = 0

\* A pool that hands out the newest queued task first.
StartNewest(w) ==
    /\ CanStart(w)
    /\ work_queue # <<>>
    /\ worker' = [x \in DOMAIN worker \cup {w} |->
                    IF x = w THEN work_queue[Len(work_queue)] ELSE worker[x]]
    /\ work_queue' = SubSeq(work_queue, 1, Len(work_queue) - 1)
    /\ tpc' = [tpc EXCEPT ![work_queue[Len(work_queue)]] = "taken"]
    /\ UNCHANGED <<args, completed, threads, ips, mpc, main_exc, model_to_use, result, exception,
                   disc_resp, gen_resp, disc_reqs, gen_reqs, emitted, finished0,
                   waiter, all_results>>

\* A free worker takes the head of the queue.
Start(w) ==
    /\ CanStart(w)
    /\ work_queue # <<>>
    /\ worker' = [x \in DOMAIN worker \cup {w} |-> IF x = w THEN Head(work_queue) ELSE worker[x]]
    /\ work_queue' = Tail(work_queue)
    /\ tpc' = [tpc EXCEPT ![Head(work_queue)] = "taken"]
    /\ UNCHANGED <<args, completed, threads, ips, mpc, main_exc, model_to_use, result, exception,
                   disc_resp, gen_resp, disc_reqs, gen_reqs, emitted, finished0,
                   waiter, all_results>>

\* The worker that took task i calls self.test_single_ip(ips[i]); between
\* the taking and the call the threads of the other workers may run.
Call(i) ==
    /\ tpc[i] = "taken"
    /\ tpc' = [tpc EXCEPT ![i] = "discover"]
    /\ UNCHANGED <<args, completed, threads, ips, mpc, main_exc, work_queue, worker,
                   model_to_use, result, exception, disc_resp, gen_resp, disc_reqs,
                   gen_reqs, emitted, finished0, waiter, all_results>>

\* A worker that is lost when the call it ran raised.
WorkerLostOnRaise(i) ==
    [w \in DOMAIN worker |->
        IF worker[w] = i /\ tpc[i] = "emitted" THEN 0 ELSE worker[w]]

\* The pool's worker after the call of task i ended (returned or raised):
\* the future is done, the worker goes back to the queue, and an installed
\* as_completed waiter is told.
WorkerAfter(i) == [w \in DOMAIN worker |-> IF worker[w] = i THEN 0 ELSE worker[w]]

WaiterAfter(i) == IF mpc = "collect" THEN Append(waiter, i) ELSE waiter

\* An exception leaves test_single_ip: the future of task i holds it.
RaiseOut(i, exc) ==
    /\ tpc' = [tpc EXCEPT ![i] = "raised"]
    /\ exception' = [exception EXCEPT ![i] = exc]
    /\ worker' = WorkerAfter(i)
    /\ waiter' = WaiterAfter(i)
    /\ completed' = Append(completed, i)

\* A probe that goes on to its generation request after a failed discovery.
DiscoverNoReturn(i, responses) ==
    /\ tpc[i] = "discover"
    /\ \E resp \in responses :
        LET model_check == check_available_models(resp)
        IN  /\ disc_resp' = [disc_resp EXCEPT ![i] = resp]
            /\ disc_reqs' = [disc_reqs EXCEPT ![i] = @ + 1]
            /\ tpc' = [tpc EXCEPT ![i] = "generate"]
            /\ IF model_check["status"] = "error"
                THEN /\ result' = [result EXCEPT ![i] = DiscoveryFailure(ips[i], model_check)]
                     /\ UNCHANGED model_to_use
                ELSE /\ model_to_use' = [model_to_use EXCEPT ![i] = model_check["model"]]
                     /\ UNCHANGED result
    /\ UNCHANGED <<args, completed, threads, ips, mpc, main_exc, work_queue, worker, exception,
                   gen_resp, gen_reqs, emitted, finished0, waiter, all_results>>

\* Lines 52-63: the discovery request and what test_single_ip does with it.
Discover(i, responses) ==
    /\ tpc[i] = "discover"
    /\ \E resp \in responses :
        LET model_check == check_available_models(resp)
        IN  /\ disc_resp' = [disc_resp EXCEPT ![i] = resp]
            /\ disc_reqs' = [disc_reqs EXCEPT ![i] = @ + 1]
            /\ IF model_check["status"] = "error"
                THEN /\ result' = [result EXCEPT ![i] = DiscoveryFailure(ips[i], model_check)]
                     /\ tpc' = [tpc EXCEPT ![i] = "print"]
                     /\ UNCHANGED model_to_use
                ELSE /\ model_to_use' = [model_to_use EXCEPT ![i] = model_check["model"]]
                     /\ tpc' = [tpc EXCEPT ![i] = "generate"]
                     /\ UNCHANGED result
    /\ UNCHANGED <<args, completed, threads, ips, mpc, main_exc, work_queue, worker, exception,
                   gen_resp, gen_reqs, emitted, finished0, waiter, all_results>>

\* Lines 65-113 up to the print_result call: the generation request, the
\* stream, the result.
Generate(i, responses) ==
    /\ tpc[i] = "generate"
    /\ \E resp \in responses :
        LET out == GenerationOutcome(ips[i], model_to_use[i], resp)
        IN  /\ gen_resp' = [gen_resp EXCEPT ![i] = resp]
            /\ gen_reqs' = [gen_reqs EXCEPT ![i] = @ + 1]
            /\ IF out.exception = ""
                THEN /\ result' = [result EXCEPT ![i] = out.result]
                     /\ tpc' = [tpc EXCEPT ![i] = "print"]
                     /\ UNCHANGED <<exception, worker, waiter, completed>>
                ELSE /\ RaiseOut(i, out.exception)
                     /\ UNCHANGED result
    /\ UNCHANGED <<args, threads, ips, mpc, main_exc, work_queue, model_to_use,
                   disc_resp, disc_reqs, emitted, finished0, all_results>>

\* A probe that prints successes only.
PrintSkipErrors(i) ==
    /\ tpc[i] = "print"
    /\ tpc' = [tpc EXCEPT ![i] = IF result[i]["status"] = "error" THEN "emitted" ELSE "printing"]
    /\ UNCHANGED <<args, completed, threads, ips, mpc, main_exc, work_queue, worker, model_to_use,
                   result, exception, disc_resp, gen_resp, disc_reqs, gen_reqs,
                   emitted, finished0, waiter, all_results>>

\* self.print_result(result) is entered.
PrintEnter(i) ==
    /\ tpc[i] = "print"
    /\ tpc' = [tpc EXCEPT ![i] = "printing"]
    /\ UNCHANGED <<args, completed, threads, ips, mpc, main_exc, work_queue, worker, model_to_use,
                   result, exception, disc_resp, gen_resp, disc_reqs, gen_reqs,
                   emitted, finished0, waiter, all_results>>

\* print_result formats and prints the row, or its f-string raises.
PrintEmit(i) ==
    /\ tpc[i] = "printing"
    /\ IF PrintRaises(result[i])
        THEN /\ RaiseOut(i, "TypeError")
             /\ UNCHANGED emitted
        ELSE /\ emitted' = Append(emitted, Row(result[i]))
             /\ tpc' = [tpc EXCEPT ![i] = "emitted"]
             /\ UNCHANGED <<exception, worker, waiter, completed>>
    /\ UNCHANGED <<args, threads, ips, mpc, main_exc, work_queue, model_to_use, result,
                   disc_resp, gen_resp, disc_reqs, gen_reqs, finished0, all_results>>

\* return result: the future of task i holds the result.
Return(i) ==
    /\ tpc[i] = "emitted"
    /\ tpc' = [tpc EXCEPT ![i] = "returned"]
    /\ worker' = WorkerAfter(i)
    /\ waiter' = WaiterAfter(i)
    /\ completed' = Append(completed, i)
    /\ UNCHANGED <<args, threads, ips, mpc, main_exc, work_queue, model_to_use, result,
                   exception, disc_resp, gen_resp, disc_reqs, gen_reqs, emitted,
                   finished0, all_results>>

\* The dict comprehension is over: as_completed(future_to_ip) notes the
\* futures already done and waits for the others.
AsCompleted ==
    /\ mpc = "submit"
    /\ \A i \in Tasks : tpc[i] # "new"
    /\ finished0' = {i \in Tasks : tpc[i] \in Finished}
    /\ mpc' = "collect"
    /\ UNCHANGED <<args, completed, threads, ips, main_exc, work_queue, worker, tpc, model_to_use,
                   result, exception, disc_resp, gen_resp, disc_reqs, gen_reqs,
                   emitted, waiter, all_results>>

\* The futures as_completed can yield next: any of those done at its call
\* (a set, in no order), then the others as they complete.
NextCompleted ==
    IF finished0 # {} THEN finished0
    ELSE IF waiter # <<>> THEN {Head(waiter)}
    ELSE {}

\* A loop that is left after the first completed future.
CollectFirstOnly ==
    /\ mpc = "collect"
    /\ \E i \in NextCompleted :
        /\ finished0' = finished0 \ {i}
        /\ waiter' = IF finished0 # {} THEN waiter ELSE Tail(waiter)
        /\ IF tpc[i] = "raised"
            THEN /\ main_exc' = exception[i]
                 /\ UNCHANGED all_results
            ELSE /\ all_results' = Append(all_results, result[i])
                 /\ UNCHANGED main_exc
        /\ mpc' = "shutdown"
    /\ UNCHANGED <<args, completed, threads, ips, work_queue, worker, tpc, model_to_use, result,
                   exception, disc_resp, gen_resp, disc_reqs, gen_reqs, emitted>>

\* One turn of the for loop: result = future.result(), which raises what the
\* task raised; all_results.append(result).
Collect ==
    /\ mpc = "collect"
    /\ \E i \in NextCompleted :
        /\ finished0' = finished0 \ {i}
        /\ waiter' = IF finished0 # {} THEN waiter ELSE Tail(waiter)
        /\ IF tpc[i] = "raised"
            THEN /\ main_exc' = exception[i]
                 /\ mpc' = "shutdown"
                 /\ UNCHANGED all_results
            ELSE /\ all_results' = Append(all_results, result[i])
                 /\ mpc' = IF Len(all_results) + 1 = Len(ips) THEN "shutdown" ELSE "collect"
                 /\ UNCHANGED main_exc
    /\ UNCHANGED <<args, completed, threads, ips, work_queue, worker, tpc, model_to_use, result,
                   exception, disc_resp, gen_resp, disc_reqs, gen_reqs, emitted>>

\* for over an empty as_completed: no host at all.
CollectNone ==
    /\ mpc = "collect"
    /\ Len(ips) = 0
    /\ mpc' = "shutdown"
    /\ UNCHANGED <<args, completed, threads, ips, main_exc, work_queue, worker, tpc, model_to_use,
                   result, exception, disc_resp, gen_resp, disc_reqs, gen_reqs,
                   emitted, finished0, waiter, all_results>>

\* The with block is left: executor.shutdown(wait=True) joins the workers,
\* which first run every task still queued; then return all_results, or the
\* exception goes on.
Shutdown ==
    /\ mpc = "shutdown"
    /\ work_queue = <<>>
    /\ \A w \in DOMAIN worker : worker[w] = 0
    /\ mpc' = IF main_exc = "" THEN "returned" ELSE "raised"
    /\ UNCHANGED <<args, completed, threads, ips, main_exc, work_queue, worker, tpc, model_to_use,
                   result, exception, disc_resp, gen_resp, disc_reqs, gen_reqs,
                   emitted, finished0, waiter, all_results>>

\* ------------------------------------------------------- specifications
\* The pool with several hosts, each answering with one of a few responses.
Next ==
    \/ Submit
    \/ \E w \in 1..MaxThreads : Start(w)
    \/ \E i \in Tasks : Call(i)
    \/ \E i \in Tasks : Discover(i, CoreDiscovery)
    \/ \E i \in Tasks : Generate(i, CoreGeneration)
    \/ \E i \in Tasks : PrintEnter(i)
    \/ \E i \in Tasks : PrintEmit(i)
    \/ \E i \in Tasks : Return(i)
    \/ AsCompleted
    \/ Collect
    \/ CollectNone
    \/ Shutdown

Spec == Init /\ [][Next]_vars

\* One probe alone, with every discovery response; every generation response
\* is explored behind the discovery responses of CoreDiscovery, the responses
\* of CoreGeneration behind the others.
ProbeInit == InitWith({<<>>, <<<<1>>>>}, {1})

GenerationInputs(i) ==
    IF disc_resp[i] \in CoreDiscovery THEN GenerationResponses ELSE CoreGeneration

ProbeNext ==
    \/ Submit
    \/ \E w \in 1..MaxThreads : Start(w)
    \/ \E i \in Tasks : Call(i)
    \/ \E i \in Tasks : Discover(i, DiscoveryResponses)
    \/ \E i \in Tasks : Generate(i, GenerationInputs(i))
    \/ \E i \in Tasks : PrintEnter(i)
    \/ \E i \in Tasks : PrintEmit(i)
    \/ \E i \in Tasks : Return(i)
    \/ AsCompleted
    \/ Collect
    \/ CollectNone
    \/ Shutdown

SpecProbe == ProbeInit /\ [][ProbeNext]_vars

\* Some thread runs whenever one can: the threads are scheduled and each
\* network call ends, by its timeout at the latest.
Fairness == WF_vars(Next)

FairSpec == Spec /\ Fairness

\* ------------------------------------------------------------- claims
\* The number of rows on stdout for the host of task i.
EmitCount(i) == Cardinality({k \in 1..Len(emitted) : emitted[k]["ip"] = ips[i]})

\* The number of collected results for the host of task i.
ResultCount(i) == Cardinality({k \in 1..Len(all_results) : all_results[k]["ip"] = ips[i]})

\* Task i has received its discovery / generation response.
Discovered(i) == disc_reqs[i] > 0

Generated(i) == gen_reqs[i] > 0

\* b is the part of name before its first ':' (all of it if it has none).
IsBaseOf(b, name) ==
    /\ Len(b) <= Len(name)
    /\ \A k \in 1..Len(b) : b[k] = name[k] /\ b[k] # ":"
    /\ Len(b) < Len(name) => name[Len(b) + 1] = ":"

\* Every line of the stream is empty or one JSON object.
Decodable(lines) == \A k \in 1..Len(lines) : lines[k].kind \in {"empty", "event"}

IsDoneEvent(chunk) ==
    chunk.kind = "event" /\ "done" \in DOMAIN chunk.obj /\ chunk.obj["done"]

\* The last JSON object of the stream is a done=true event.
EndsWithDone(lines) ==
    \E k \in 1..Len(lines) :
        /\ IsDoneEvent(lines[k])
        /\ \A j \in (k + 1)..Len(lines) : lines[j].kind = "empty"

LastDoneEvent(lines) ==
    lines[CHOOSE k \in 1..Len(lines) :
            IsDoneEvent(lines[k]) /\ \A j \in (k + 1)..Len(lines) : lines[j].kind = "empty"].obj

\* C1: at every moment of test_multiple_ips, the probes that have started
\* and not finished are at most self.threads.
C1_InFlightAtMostThreads == Cardinality(InFlight) <= threads

\* C1 witness: as many probes in flight as there are threads, and a host
\* waiting in the queue.
C1_Witness == Cardinality(InFlight) = threads /\ work_queue # <<>>

\* C2: when test_multiple_ips has returned, every host's probe has returned
\* its result and all_results holds exactly one result per host.
C2_OneResultPerHost ==
    mpc = "returned" =>
        /\ Len(all_results) = Len(ips)
        /\ \A i \in Tasks : tpc[i] = "returned" /\ ResultCount(i) = 1

\* C2 witness: a run over two hosts has returned, one host with an error
\* result and one with a success result.
C2_Witness ==
    /\ mpc = "returned"
    /\ Len(ips) >= 2
    /\ \E k, l \in 1..Len(all_results) :
        all_results[k]["status"] = "error" /\ all_results[l]["status"] = "success"

\* C3: once every host of the list is submitted, eventually every host has
\* been taken by a worker and its probe has run to its end (it returned a
\* result or raised), whatever the other probes did.
C3_EveryHostWorked ==
    (\A i \in Tasks : tpc[i] # "new") ~> (\A i \in Tasks : tpc[i] \in Finished)

\* C3 witness: a probe raised, test_multiple_ips was unwound by its
\* exception, and another host's probe, never collected, still ran to its
\* result.
C3_Witness ==
    /\ mpc = "raised"
    /\ \E i, j \in Tasks :
        tpc[i] = "raised" /\ tpc[j] = "returned" /\ ResultCount(j) = 0

\* C4: a probe that has returned has written exactly one row for its host,
\* no probe writes more than one, and the row is written before the return.
C4_OneEmissionBeforeReturn ==
    \A i \in Tasks :
        /\ EmitCount(i) <= 1
        /\ tpc[i] = "returned" => EmitCount(i) = 1
        /\ EmitCount(i) = 1 => tpc[i] \in {"emitted", "returned"}

\* C4 witness: a probe stands between its row and its return.
C4_Witness ==
    \E i \in Tasks : tpc[i] = "emitted" /\ EmitCount(i) = 1 /\ result[i]["status"] = "success"

\* C5: a result with status 'success' has a model other than 'N/A' and a
\* tokens_per_second; a result with status 'error' has no tokens_per_second.
C5_ResultShape ==
    \A i \in Tasks :
        result[i] # EmptyDict =>
            /\ result[i]["status"] \in {"success", "error"}
            /\ result[i]["status"] = "success" =>
                /\ "model" \in DOMAIN result[i]
                /\ result[i]["model"] # NA
                /\ "tokens_per_second" \in DOMAIN result[i]
            /\ result[i]["status"] = "error" => "tokens_per_second" \notin DOMAIN result[i]

\* C5 witness: a success result built from a terminal event that has no
\* eval_duration.
C5_Witness ==
    \E i \in Tasks :
        /\ result[i] # EmptyDict
        /\ result[i]["status"] = "success"
        /\ ~gen_resp[i].exc
        /\ EndsWithDone(gen_resp[i].lines)
        /\ "eval_duration" \notin DOMAIN LastDoneEvent(gen_resp[i].lines)

\* The discovery response yields no model: the request failed, the status is
\* not 2xx, or the status is 200 and the list is empty.
NoModelFound(resp) ==
    \/ resp.exc
    \/ resp.status_code \notin 200..299
    \/ resp.status_code = 200 /\ resp.models = <<>>

\* C6: when discovery yields no model, the result is an error with model
\* 'N/A' and a discovery message, and no generation request is issued.
C6_DiscoveryFailure ==
    \A i \in Tasks :
        (Discovered(i) /\ NoModelFound(disc_resp[i])) =>
            /\ gen_reqs[i] = 0
            /\ tpc[i] # "raised"
            /\ result[i] # EmptyDict
            /\ result[i]["status"] = "error"
            /\ result[i]["model"] = NA
            /\ result[i]["message"] =
                IF disc_resp[i].exc THEN <<"Model check timeout">>
                ELSE IF disc_resp[i].status_code = 200 THEN <<"No models available">>
                ELSE <<"HTTP", disc_resp[i].status_code>>

\* C6 witness: a probe has returned after a 200 response with no model.
C6_Witness ==
    \E i \in Tasks :
        /\ tpc[i] = "returned"
        /\ ~disc_resp[i].exc
        /\ disc_resp[i].status_code = 200
        /\ disc_resp[i].models = <<>>

\* The discovery response is a 200 with at least one model.
ModelsListed(resp) == ~resp.exc /\ resp.status_code = 200 /\ resp.models # <<>>

PreferredListed(resp) ==
    \E k \in 1..Len(resp.models) : IsBaseOf(preferred_model, resp.models[k])

\* C7: after a 200 response with models, the probe uses the preferred model
\* if some listed name has it before the ':', and the first listed name
\* (tag stripped) otherwise.
C7_ModelSelection ==
    \A i \in Tasks :
        (Discovered(i) /\ ModelsListed(disc_resp[i])) =>
            /\ tpc[i] \notin {"new", "queued", "taken", "discover"}
            /\ PreferredListed(disc_resp[i]) => model_to_use[i] = preferred_model
            /\ ~PreferredListed(disc_resp[i]) =>
                IsBaseOf(model_to_use[i], disc_resp[i].models[1])

\* C7 witness: the preferred model is listed second, with a tag, behind
\* another model, and the probe uses it.
C7_Witness ==
    \E i \in Tasks :
        /\ Discovered(i)
        /\ ModelsListed(disc_resp[i])
        /\ Len(disc_resp[i].models) = 2
        /\ ~IsBaseOf(preferred_model, disc_resp[i].models[1])
        /\ disc_resp[i].models[2] = <<"llama3.2", ":", "mistral">>
        /\ model_to_use[i] = preferred_model

\* The generation phase got no terminal event: the request failed or timed
\* out, or no line of the body is a done=true event.
NoTerminalEvent(resp) ==
    resp.exc \/ \A k \in 1..Len(resp.lines) : ~IsDoneEvent(resp.lines[k])

\* C8: when discovery succeeded and generation got no terminal event, the
\* probe ends in an 'error' result whose model is the one discovery
\* selected (not 'N/A').
C8_NoTerminalKeepsModel ==
    \A i \in Tasks :
        (Generated(i) /\ NoTerminalEvent(gen_resp[i])) =>
            /\ tpc[i] # "raised"
            /\ result[i] # EmptyDict
            /\ result[i]["status"] = "error"
            /\ result[i]["model"] = model_to_use[i]
            /\ result[i]["model"] # NA

\* C8, where the code agrees: the same for a failed request and for a body
\* whose lines all decode.
C8_DecodableKeepsModel ==
    \A i \in Tasks :
        (Generated(i) /\ NoTerminalEvent(gen_resp[i])
            /\ Decodable(gen_resp[i].lines)) =>
            /\ tpc[i] # "raised"
            /\ result[i] # EmptyDict
            /\ result[i]["status"] = "error"
            /\ result[i]["model"] = model_to_use[i]
            /\ result[i]["model"] # NA

\* C9: a stream with a line that is not JSON ends in an 'error' result of
\* the probe; no exception leaves test_single_ip.
C9_MalformedBecomesError ==
    \A i \in Tasks :
        (Generated(i) /\ ~gen_resp[i].exc
            /\ \E k \in 1..Len(gen_resp[i].lines) : gen_resp[i].lines[k].kind = "malformed") =>
            /\ tpc[i] # "raised"
            /\ result[i] # EmptyDict
            /\ result[i]["status"] = "error"

\* C10: a terminal event with eval_duration zero or missing ends in an
\* 'error' result of the probe: no crash, no success.
C10_ZeroDurationIsError ==
    \A i \in Tasks :
        (Generated(i) /\ ~gen_resp[i].exc /\ Decodable(gen_resp[i].lines)
            /\ EndsWithDone(gen_resp[i].lines)
            /\ Get(LastDoneEvent(gen_resp[i].lines), "eval_duration", 0) = 0) =>
            /\ tpc[i] # "raised"
            /\ result[i] # EmptyDict
            /\ result[i]["status"] = "error"

\* C11: a terminal event without eval_count or without total_duration ends
\* in an 'error' result of the probe: no success from defaulted values, no
\* exception out of the result's construction or of print_result.
C11_MissingFieldIsError ==
    \A i \in Tasks :
        (Generated(i) /\ ~gen_resp[i].exc /\ Decodable(gen_resp[i].lines)
            /\ EndsWithDone(gen_resp[i].lines)
            /\ \E f \in {"eval_count", "total_duration"} :
                f \notin DOMAIN LastDoneEvent(gen_resp[i].lines)) =>
            /\ tpc[i] # "raised"
            /\ result[i] # EmptyDict
            /\ result[i]["status"] = "error"

\* The probes that are inside print_result.
Printing == {i \in Tasks : tpc[i] = "printing"}

\* C12: whatever the thread count, at most one worker is inside print_result
\* at any moment.
C12_PrintSerialized == Cardinality(Printing) <= 1

\* The place of an address in the host list.
IndexOf(ip) == CHOOSE i \in Tasks : ips[i] = ip

\* The rows, and the collected results, follow the order of the host list.
InInputOrder(dicts) ==
    \A p, q \in 1..Len(dicts) : p < q => IndexOf(dicts[p]["ip"]) < IndexOf(dicts[q]["ip"])

\* With one thread, the probe of a host starts only when the probe of the
\* host before it has ended.
OneAtATime == \A k \in Tasks : (k > 1 /\ tpc[k] \notin {"new", "queued"}) => tpc[k - 1] \in Finished

\* C13: with self.threads = 1 the hosts are probed one after the other in
\* input order, the rows are written in input order and the results are
\* collected in input order.
C13_SequentialInInputOrder ==
    threads = 1 => OneAtATime /\ InInputOrder(emitted) /\ InInputOrder(all_results)

\* C13, where the code agrees: the probing and the rows.
C13_SequentialProbing == threads = 1 => OneAtATime /\ InInputOrder(emitted)

\* The place of task i's result in all_results.
PlaceOf(i) == CHOOSE k \in 1..Len(all_results) : all_results[k]["ip"] = ips[i]

\* C14: in the returned list the results stand in the order in which the
\* probes finished.
C14_CompletionOrder ==
    mpc = "returned" =>
        \A a, b \in 1..Len(completed) :
            a < b => PlaceOf(completed[a]) < PlaceOf(completed[b])

\* ------------------------------------------------------------------ main
\* Bounds of the command lines.
MaxFileLines == 2

\* --threads when the option is not given.
DefaultThreads == 1

\* A whitespace character of a line; the other characters are 1..MaxHosts.
Space == 0

RECURSIVE lstrip(_)
lstrip(s) == IF s # <<>> /\ Head(s) = Space THEN lstrip(Tail(s)) ELSE s

RECURSIVE rstrip(_)
rstrip(s) == IF s # <<>> /\ s[Len(s)] = Space THEN rstrip(SubSeq(s, 1, Len(s) - 1)) ELSE s

\* str.strip()
strip(s) == rstrip(lstrip(s))

\* [line.strip() for line in f if line.strip()]
read_ips_from_file(lines) ==
    SelectSeq([k \in 1..Len(lines) |-> strip(lines[k])], LAMBDA line : line # <<>>)

\* A dict that moves a key it already holds to the end.
InsertMoveToEnd(d, key) == Append(SelectSeq(d, LAMBDA x : x # key), key)

\* The keys of a dict after d[key] = None: a key the dict holds keeps its
\* place, a new key goes to the end.
Insert(d, key) == IF \E k \in 1..Len(d) : d[k] = key THEN d ELSE Append(d, key)

\* list(dict.fromkeys(s))
RECURSIVE FromKeys(_)
FromKeys(s) ==
    IF s = <<>> THEN <<>> ELSE Insert(FromKeys(SubSeq(s, 1, Len(s) - 1)), s[Len(s)])

\* `args.ip` and `args.file` as conditions: None and '' are false.
IpGiven(a) == a.has_ip /\ a.ip # <<>>
FileGiven(a) == a.has_file

\* ips_to_test before line 151: the addresses of the file, then the --ip one.
HostsOf(a) ==
    (IF FileGiven(a) THEN read_ips_from_file(a.file) ELSE <<>>)
        \o (IF IpGiven(a) THEN <<a.ip>> ELSE <<>>)

\* The lines a file is made of: empty, blank, an address, an address with
\* whitespace around it.
FileLines == {<<>>, <<Space>>, <<Space, 1, Space>>} \cup {<<h>> : h \in 1..MaxHosts}

Files == UNION {[1..n -> FileLines] : n \in 0..MaxFileLines}

\* The command lines: --ip absent, '' or an address; --file absent, the
\* path of no file, or the path of a file; --threads absent.
CommandLines ==
    {[has_ip |-> FALSE, ip |-> <<>>, has_file |-> FALSE, file_exists |-> FALSE,
      file |-> <<>>, threads |-> DefaultThreads]}
    \cup {[has_ip |-> TRUE, ip |-> ip, has_file |-> FALSE, file_exists |-> FALSE,
           file |-> <<>>, threads |-> DefaultThreads] :
            ip \in {<<>>} \cup {<<h>> : h \in 1..MaxHosts}}
    \cup {[has_ip |-> hip, ip |-> IF hip THEN <<1>> ELSE <<>>, has_file |-> TRUE,
           file_exists |-> FALSE, file |-> <<>>, threads |-> DefaultThreads] :
            hip \in BOOLEAN}
    \cup {[has_ip |-> ip # <<>>, ip |-> ip, has_file |-> TRUE, file_exists |-> TRUE,
           file |-> f, threads |-> DefaultThreads] :
            ip \in {<<>>} \cup {<<h>> : h \in 1..MaxHosts}, f \in Files}

\* The process before main runs: no OllamaSpeedTest, no pool.
MainInit ==
    /\ args \in CommandLines
    /\ mpc = "main"
    /\ threads = 0
    /\ ips = <<>>
    /\ completed = <<>>
    /\ main_exc = ""
    /\ work_queue = <<>>
    /\ worker = <<>>
    /\ tpc = <<>>
    /\ model_to_use = <<>>
    /\ result = <<>>
    /\ exception = <<>>
    /\ disc_resp = <<>>
    /\ gen_resp = <<>>
    /\ disc_reqs = <<>>
    /\ gen_reqs = <<>>
    /\ emitted = <<>>
    /\ finished0 = {}
    /\ waiter = <<>>
    /\ all_results = <<>>

\* main, lines 138-157, up to the first statement of test_multiple_ips:
\* parser.error ends the process; open() of a missing file raises; else the
\* host list is assembled and handed to a new OllamaSpeedTest.
Main ==
    /\ mpc = "main"
    /\ IF ~IpGiven(args) /\ ~FileGiven(args)
        THEN /\ mpc' = "usage_error"
             /\ UNCHANGED <<threads, ips, main_exc, worker, tpc, model_to_use, result,
                            exception, disc_resp, gen_resp, disc_reqs, gen_reqs>>
        ELSE IF FileGiven(args) /\ ~args.file_exists
        THEN /\ mpc' = "raised"
             /\ main_exc' = "FileNotFoundError"
             /\ UNCHANGED <<threads, ips, worker, tpc, model_to_use, result,
                            exception, disc_resp, gen_resp, disc_reqs, gen_reqs>>
        ELSE LET ips_to_test == FromKeys(HostsOf(args))
             IN  /\ mpc' = "submit"
                 /\ threads' = args.threads
                 /\ ips' = ips_to_test
                 /\ worker' = [w \in 1..args.threads |-> 0]
                 /\ tpc' = [i \in 1..Len(ips_to_test) |-> "new"]
                 /\ model_to_use' = [i \in 1..Len(ips_to_test) |-> <<>>]
                 /\ result' = [i \in 1..Len(ips_to_test) |-> EmptyDict]
                 /\ exception' = [i \in 1..Len(ips_to_test) |-> ""]
                 /\ disc_resp' = [i \in 1..Len(ips_to_test) |-> NoDiscovery]
                 /\ gen_resp' = [i \in 1..Len(ips_to_test) |-> NoGeneration]
                 /\ disc_reqs' = [i \in 1..Len(ips_to_test) |-> 0]
                 /\ gen_reqs' = [i \in 1..Len(ips_to_test) |-> 0]
                 /\ UNCHANGED main_exc
    /\ UNCHANGED <<args, completed, work_queue, emitted, finished0, waiter, all_results>>

\* The discovery responses of hosts that do not answer.
RefusedDiscovery == {resp \in CoreDiscovery : resp.exc}

\* The whole program, every host refusing the connection.
MainNext ==
    \/ Main
    \/ Submit
    \/ \E w \in 1..MaxThreads : Start(w)
    \/ \E i \in Tasks : Call(i)
    \/ \E i \in Tasks : Discover(i, RefusedDiscovery)
    \/ \E i \in Tasks : PrintEnter(i)
    \/ \E i \in Tasks : PrintEmit(i)
    \/ \E i \in Tasks : Return(i)
    \/ AsCompleted
    \/ Collect
    \/ CollectNone
    \/ Shutdown

SpecMain == MainInit /\ [][MainNext]_vars

\* test_multiple_ips has been called.
DispatcherStarted == mpc \in {"submit", "collect", "shutdown", "returned"}

\* The place of the first occurrence of x in s.
FirstIndex(s, x) == CHOOSE k \in 1..Len(s) : s[k] = x /\ \A j \in 1..(k - 1) : s[j] # x

\* The discovery requests sent to the address x.
RequestsTo(x) == {i \in Tasks : ips[i] = x /\ disc_reqs[i] > 0}

\* C15: the host list of the run holds the addresses of the input (the file's
\* lines, then --ip), each once, in the order of their first occurrences,
\* and every address is probed at most once, exactly once when the run ends.
C15_DedupedHostList ==
    DispatcherStarted =>
        LET input == HostsOf(args)
        IN  /\ \A i, j \in Tasks : ips[i] = ips[j] => i = j
            /\ {ips[i] : i \in Tasks} = {input[k] : k \in 1..Len(input)}
            /\ \A i, j \in Tasks :
                i < j => FirstIndex(input, ips[i]) < FirstIndex(input, ips[j])
            /\ \A k \in 1..Len(input) :
                /\ Cardinality(RequestsTo(input[k])) <= 1
                /\ \A i \in RequestsTo(input[k]) : disc_reqs[i] = 1
                /\ mpc = "returned" => Cardinality(RequestsTo(input[k])) = 1

\* The input [A, B, A] has been probed as [A, B], once each.
C15_Witness ==
    /\ mpc = "returned"
    /\ HostsOf(args) = <<<<1>>, <<2>>, <<1>>>>
    /\ ips = <<<<1>>, <<2>>>>
    /\ \A i \in Tasks : disc_reqs[i] = 1

\* C16: a run whose assembled host list is empty (no --ip and no --file, or
\* a --file without addresses) ends before test_multiple_ips is called.
C16_EmptyHostListRejected ==
    (mpc # "main" /\ (FileGiven(args) => args.file_exists) /\ HostsOf(args) = <<>>) =>
        ~DispatcherStarted

\* C16, where the code agrees: without --ip and --file the run ends in
\* parser.error.
C16_NoOptionRejected ==
    (mpc # "main" /\ ~IpGiven(args) /\ ~FileGiven(args)) => mpc = "usage_error"

\* The stream without its chunks of the given kinds.
Without(lines, kinds) == SelectSeq(lines, LAMBDA chunk : chunk.kind \notin kinds)

\* The probe of task i ended its generation phase as it would have on the
\* stream without the chunks of the given kinds: the same result, or the
\* same exception.
SameAsWithout(i, kinds) ==
    LET o == GenerationOutcome(ips[i], model_to_use[i],
                               [exc |-> FALSE, lines |-> Without(gen_resp[i].lines, kinds)])
    IN  IF o.exception # ""
        THEN exception[i] = o.exception
        ELSE result[i] = o.result /\ exception[i] \in {"", "TypeError"}

\* C17: empty and whitespace-only chunks are skipped: they raise nothing
\* and the probe ends as it would on the stream without them.
C17_BlankChunksSkipped ==
    \A i \in Tasks :
        (Generated(i) /\ ~gen_resp[i].exc) => SameAsWithout(i, {"empty", "blank"})

\* C17, where the code agrees: the empty chunks are skipped.
C17_EmptyChunksSkipped ==
    \A i \in Tasks :
        (Generated(i) /\ ~gen_resp[i].exc) => SameAsWithout(i, {"empty"})

\* C18: a host gets at most one discovery request and at most one
\* generation request, none before its probe has started, and the
\* generation request only when the discovery request has been answered
\* with a model to use.
C18_DiscoveryThenGeneration ==
    \A i \in Tasks :
        /\ disc_reqs[i] <= 1
        /\ gen_reqs[i] <= 1
        /\ tpc[i] \in {"new", "queued", "taken", "discover"} =>
            disc_reqs[i] = 0 /\ gen_reqs[i] = 0
        /\ tpc[i] = "generate" => disc_reqs[i] = 1 /\ gen_reqs[i] = 0
        /\ Generated(i) =>
            /\ disc_reqs[i] = 1
            /\ check_available_models(disc_resp[i])["status"] = "success"
            /\ model_to_use[i] = check_available_models(disc_resp[i])["model"]

\* C18 witness: a probe has returned after one request of each phase.
C18_Witness ==
    \E i \in Tasks : tpc[i] = "returned" /\ disc_reqs[i] = 1 /\ gen_reqs[i] = 1

\* The stream cut down to its last non-empty chunk.
LastChunkOnly(lines) ==
    LET kept == Without(lines, {"empty"})
    IN  IF kept = <<>> THEN <<>> ELSE <<kept[Len(kept)]>>

\* The metrics of a terminal event are all there and the duration is not 0.
ValidMetrics(event) ==
    /\ {"eval_count", "eval_duration", "total_duration"} \subseteq DOMAIN event
    /\ event["eval_duration"] > 0

\* C19: on a stream of empty lines and JSON objects the probe ends as on
\* the stream's last object alone: 'Invalid response format' when there is
\* none or when it is not done=true, whatever came before; 'success' with
\* that object's metrics when it is done=true with valid metrics.
C19_OnlyLastEventCounts ==
    \A i \in Tasks :
        (Generated(i) /\ ~gen_resp[i].exc /\ Decodable(gen_resp[i].lines)) =>
            LET last == LastChunkOnly(gen_resp[i].lines)
                o == GenerationOutcome(ips[i], model_to_use[i], [exc |-> FALSE, lines |-> last])
            IN  /\ IF o.exception # "" THEN exception[i] = o.exception
                    ELSE result[i] = o.result
                /\ (last = <<>> \/ ~IsDoneEvent(last[1])) =>
                    /\ exception[i] = ""
                    /\ result[i] = InvalidResponse(ips[i], model_to_use[i])
                /\ (last # <<>> /\ IsDoneEvent(last[1]) /\ ValidMetrics(last[1].obj)) =>
                    /\ exception[i] = ""
                    /\ result[i]["status"] = "success"
                    /\ result[i]["tokens_per_second"] =
                        TokensPerSecond(last[1].obj["eval_count"], last[1].obj["eval_duration"])
                    /\ result[i]["total_duration"] = last[1].obj["total_duration"]

\* C19 witness: a probe has returned 'error' on a stream whose first event
\* is a done=true event with valid metrics and whose last is not done.
C19_Witness ==
    \E i \in Tasks :
        /\ tpc[i] = "returned"
        /\ Generated(i) /\ ~gen_resp[i].exc
        /\ Len(gen_resp[i].lines) = 2
        /\ IsDoneEvent(gen_resp[i].lines[1]) /\ ValidMetrics(gen_resp[i].lines[1].obj)
        /\ gen_resp[i].lines[2].kind = "event" /\ ~IsDoneEvent(gen_resp[i].lines[2])
        /\ result[i]["status"] = "error"

\* A worker has taken task i from the queue / has begun its test_single_ip
\* call.
Taken(i) == tpc[i] \notin {"new", "queued"}
Started(i) == tpc[i] \notin {"new", "queued", "taken"}

\* The queue holds the submitted hosts no worker has taken, in input order.
QueuedInInputOrder ==
    /\ \A p, q \in 1..Len(work_queue) : p < q => work_queue[p] < work_queue[q]
    /\ {work_queue[p] : p \in 1..Len(work_queue)} = {i \in Tasks : tpc[i] = "queued"}

\* Every probe in progress is held by one worker, and a worker that holds
\* none is free: no worker has two probes in progress.
OneProbePerWorker ==
    /\ \A w \in DOMAIN worker : worker[w] # 0 => worker[w] \in InFlight
    /\ \A i \in InFlight : Cardinality({w \in DOMAIN worker : worker[w] = i}) = 1

\* C20: the waiting hosts queue in input order, host k's probe never starts
\* before the probe of host k-1 has started, and no worker has two probes
\* in progress.
C20_StartedInInputOrder ==
    /\ QueuedInInputOrder
    /\ \A k \in Tasks : (k > 1 /\ Started(k)) => Started(k - 1)
    /\ OneProbePerWorker

\* C20 as amended: the waiting hosts queue in input order, the workers take
\* them in input order (with one thread the probes also start in that
\* order), and no worker has two probes in progress.
C20_TakenInInputOrder ==
    /\ QueuedInInputOrder
    /\ \A k \in Tasks : (k > 1 /\ Taken(k)) => Taken(k - 1)
    /\ threads = 1 => \A k \in Tasks : (k > 1 /\ Started(k)) => Started(k - 1)
    /\ OneProbePerWorker

\* C20 witness: two workers have taken hosts 1 and 2 in this order, and the
\* probe of host 2 is the one that has started.
C20_Witness ==
    /\ Len(ips) >= 2
    /\ tpc[1] = "taken" /\ Started(2)
    /\ \E w1, w2 \in DOMAIN worker : w1 # w2 /\ worker[w1] = 1 /\ worker[w2] = 2

====
